---- MODULE Spec2Model ----
(***************************************************************************)
(* State-machine model of the panasonic_cn integration: the cloud session  *)
(* client (api/client.py), the device model (api/devices/base.py,          *)
(* api/devices/fridge.py), the device registry (api/mapping.py) and the    *)
(* polling coordinator (coordinator.py).                                   *)
(*                                                                         *)
(* Python's cooperative scheduling makes the code between two awaits one   *)
(* atomic step, so every action below runs from the resumption of a task   *)
(* (a call, or the arrival of a network response) to its next network      *)
(* request or to the return of the top-level call.                         *)
(***************************************************************************)
EXTENDS Integers, Sequences, FiniteSets, TLC

VARIABLES
    session,        \* client: _ssid, _cookie, _user_id, _family_id, _real_family_id
    message_id,     \* client._message_id
    wire,           \* the message ids of the requests the client has sent, in order
    devices,        \* client._devices: the ids that have an entry in the table
    devices_dict,   \* coordinator._devices_dict: which dict the name is bound to
    registry,       \* DEVICE_TYPES: for each type code, what its class leaves abstract
    dev,            \* the device objects, by id: their attributes
    default_params, \* FRIDGE_ENTITIES["Fridge-11"]["default_params"] (a module-level dict)
    now,            \* time.time()
    cloud,          \* the vendor cloud: the status it holds for each device
    task,           \* the running coroutines: operation, await point, locals
    parse_in,       \* argument handed to parse_form
    parse_out,      \* what parse_form returned
    entities        \* the sensor entities of the platform: their attributes

vars == <<session, message_id, wire, devices, devices_dict, registry, dev,
          default_params, now, cloud, task, parse_in, parse_out, entities>>

-----------------------------------------------------------------------------
(* Bounds of the model *)

\* clock advances explored (each of half a cookie lifetime)
MaxTicks == 3
\* requests the client may issue before the model stops starting new calls
MaxMessages == 4

-----------------------------------------------------------------------------
(* Program constants and tables *)

COOKIE_EXPIRE == 3600

\* FRIDGE_ENTITIES["Fridge-11"]["default_params"] as written in the source
Fridge11Defaults ==
    [k \in {"PCTempSet", "FCTempSet", "SCS1TempSet", "SCS2TempSet", "SCB1TempSet",
            "SCB2TempSet", "quickFreeze", "vacation", "quickicing", "icingStop",
            "icingDeice", "ecoNaviSet", "freshFrozen", "nanoe", "zhencaiSet",
            "silver", "preservation", "RAModeCur", "SAModeCur", "isTodoLimit"} |->
        CASE k = "PCTempSet"   -> 4
          [] k = "FCTempSet"   -> -20
          [] k = "SCB1TempSet" -> -5
          [] OTHER             -> 0]

\* DEVICE_TYPES: the type codes that have a registered class
DEVICE_TYPES == {"0100"}

-----------------------------------------------------------------------------
(* Python values *)

\* a dict with string keys is a function; {} is the empty function
EmptyDict == <<>>

\* Optional[dict]: None, or a dict
None == [none |-> TRUE]
Some(d) == [none |-> FALSE, val |-> d]

\* d[k] = v on a dict (adds the key when it is missing)
DictSet(d, k, v) == [x \in (DOMAIN d) \cup {k} |-> IF x = k THEN v ELSE d[x]]

-----------------------------------------------------------------------------
(* PanasonicFridge.parse_form *)

\* the for-loop of parse_form over status.items(): keys left to visit
RECURSIVE parse_form_loop(_, _, _, _)
parse_form_loop(table, parsed_status, status, keys) ==
    IF keys = {} THEN parsed_status
    ELSE LET key == CHOOSE k \in keys : TRUE
             value == status[key]
         IN  parse_form_loop(table,
                             IF key \in DOMAIN table
                                 THEN DictSet(parsed_status, key, value)
                                 ELSE parsed_status,
                             status, keys \ {key})

\* a plausible slip: the membership test of the loop is dropped
parse_form_nofilter(table, status) ==
    [ret |-> parse_form_loop(table @@ status, table, status, DOMAIN status),
     table |-> table]

\* parse_form(status) with the module-level table as it stands: the returned
\* dict and the table afterwards (default_params.copy() leaves it alone)
parse_form(table, status) ==
    [ret |-> parse_form_loop(table, table, status, DOMAIN status),
     table |-> table]

-----------------------------------------------------------------------------
(* Strings, hashes and identifiers *)

\* request.headers.get("set-cookie") when the header is absent (Python's None,
\* told apart from every header text)
NoHeader == "<no set-cookie header>"

\* PanasonicCNClient._hex_upper_md5: the digest is kept symbolic, so that two
\* digests are equal exactly when their inputs are
hex_upper_md5(text) == "MD5(" \o text \o ")"

\* a plausible slip: the two operands of the first concatenation are swapped
encode_password_swapped(username, password, token) ==
    LET mid == username \o password
    IN  IF token # ""
            THEN hex_upper_md5(hex_upper_md5(mid) \o token)
            ELSE hex_upper_md5(mid)

\* PanasonicCNClient._encode_password
encode_password(username, password, token) ==
    LET mid == password \o username
    IN  IF token # ""
            THEN hex_upper_md5(hex_upper_md5(mid) \o token)
            ELSE hex_upper_md5(mid)

\* A device identifier is the tuple of its "_"-separated segments, so that
\* device_id.split("_") is the tuple itself.
Fridge1 == <<"CAFE00112233", "0100", "F11">>
Fridge2 == <<"CAFE00778899", "0100", "F11">>
Aircon1 == <<"BEEF00445566", "0200", "AC7">>
Malformed == <<"nounderscore">>

\* _sha512 of base.py, symbolic like the MD5 digest
sha512(text) == "SHA512(" \o text \o ")"

\* split_id[0][:6] and split_id[0][6:] for the first segments the model uses
FirstSix(segment) ==
    CASE segment = "CAFE00112233" -> "CAFE00"
      [] segment = "CAFE00778899" -> "CAFE00"
      [] segment = "BEEF00445566" -> "BEEF00"
      [] OTHER -> segment

AfterSix(segment) ==
    CASE segment = "CAFE00112233" -> "112233"
      [] segment = "CAFE00778899" -> "778899"
      [] segment = "BEEF00445566" -> "445566"
      [] OTHER -> ""

\* "_".join(segments)
RECURSIVE Join(_)
Join(segments) ==
    IF Len(segments) = 1 THEN segments[1]
    ELSE segments[1] \o "_" \o Join(Tail(segments))

\* self._id.split("_" + self._type + "_")[1] on the segments of the
\* identifier: the marker matches the second segment first, and next the
\* first later segment equal to the type that has a segment on both sides
\* (the one right after the second cannot match, its underscore is used up);
\* element 1 of the split is what lies between the two matches, or
\* everything after the first when there is no second
equip_type(device_id) ==
    LET marks == {k \in 4..(Len(device_id) - 1) : device_id[k] = device_id[2]}
        last == IF marks = {} THEN Len(device_id)
                ELSE (CHOOSE k \in marks : \A j \in marks : k <= j) - 1
    IN  SubSeq(device_id, 3, last)

\* PanasonicDevice.__init__, the derivation of self._token
device_token(device_id) ==
    sha512(sha512(AfterSix(device_id[1]) \o "_" \o device_id[2] \o "_"
                  \o FirstSix(device_id[1]))
           \o "_" \o Join(equip_type(device_id)))

-----------------------------------------------------------------------------
(* The environment: what the vendor cloud may answer *)

\* keys of the status the cloud reports for a fridge: three keys of the
\* default-parameter table and one sensor key of the capability manifest
\* (FRIDGE_ENTITIES["Fridge-11"]["sensor"]) that the table does not hold
CloudStatuses ==
    {[k \in {"quickFreeze", "vacation", "PCTempSet", "PCTempCur"} |->
        CASE k = "quickFreeze" -> q
          [] k = "vacation"    -> v
          [] k = "PCTempSet"   -> 4
          [] OTHER             -> 6] : q \in {0, 1}, v \in {0, 1}}

\* the partial updates handed to set_device_status (**kwargs)
Updates ==
    { EmptyDict,
      [k \in {"vacation"} |-> 1],
      [k \in {"PCTempSet"} |-> 5],
      [k \in {"nanoe"} |-> 1],
      [k \in {"quickFreeze", "vacation"} |-> IF k = "vacation" THEN 1 ELSE 0] }

\* cookies the per-device web page may set
DeviceCookies == {"JSESSIONID=dA", "JSESSIONID=dB"}

\* what UsrGetBindDevInfo may list
DevLists ==
    { <<>>, <<Aircon1>>, <<Aircon1, Fridge1>>, <<Malformed>>,
      <<Fridge2>>, <<Fridge1, Aircon1, Fridge2>> }

\* the statuses the cloud holds at the start: any for the first fridge, one
\* for the second
Clouds ==
    { (Fridge1 :> c) @@ (Fridge2 :> [k \in {"quickFreeze", "vacation", "PCTempSet"} |->
                                        IF k = "PCTempSet" THEN 3 ELSE 0])
        : c \in CloudStatuses }

\* the running coroutines
Tasks == {"main"}

-----------------------------------------------------------------------------
(* State as one record, so that the steps of a coroutine compose *)

St ==
    [session |-> session, message_id |-> message_id, wire |-> wire,
     devices |-> devices,
     devices_dict |-> devices_dict, registry |-> registry, dev |-> dev, default_params |-> default_params, now |-> now,
     cloud |-> cloud, task |-> task, entities |-> entities]

Commit(S) ==
    /\ session' = S.session
    /\ message_id' = S.message_id
    /\ wire' = S.wire
    /\ devices' = S.devices
    /\ devices_dict' = S.devices_dict
    /\ registry' = S.registry
    /\ dev' = S.dev
    /\ default_params' = S.default_params
    /\ now' = S.now
    /\ cloud' = S.cloud
    /\ task' = S.task
    /\ entities' = S.entities
    /\ UNCHANGED <<parse_in, parse_out>>

\* PanasonicCNClient.__init__: the session fields
NoSession ==
    [ssid |-> "", cookie |-> "", user_id |-> "", family_id |-> "",
     real_family_id |-> ""]

\* PanasonicDevice.__init__: the attributes of a new device object.  Neither
\* _parsed_status nor status is assigned there: has_parsed / has_status tell
\* whether the attribute exists.
NewDevice(device_id) ==
    [id |-> device_id, type |-> device_id[2], token |-> device_token(device_id),
     raw_status |-> EmptyDict,
     cookie |-> "", cookie_create_time |-> 0,
     has_parsed |-> FALSE, parsed_status |-> EmptyDict,
     has_status |-> FALSE, status |-> EmptyDict]

\* a coroutine that is not running, and the locals of one that is
IdleTask ==
    [op |-> "idle", pc |-> "idle", frame |-> "",
     device_id |-> <<>>, kwargs |-> EmptyDict,
     device_cookie |-> "", fetch_cookie |-> "", new_status |-> None,
     mac |-> "", username |-> "", password |-> "",
     login_cookie |-> "", token |-> "",
     ret |-> [nothing |-> TRUE],
     log |-> <<>>, pre |-> EmptyDict, pre_devices |-> {},
     pre_session |-> NoSession,
     queue |-> <<>>, fetch_calls |-> <<>>,
     state |-> FALSE, value |-> 0, key |-> "", select_key |-> "", option_key |-> "",
     patches |-> <<>>, patch_ret |-> <<>>,
     fetched |-> None, started_at |-> 0, finished_at |-> 0]

\* the locals (and the history of the call) of task t take these values
Upd(S, t, fields) == [S EXCEPT !.task[t] = fields @@ @]

\* the top-level call of task t returns v
Return(S, t, v) == Upd(S, t, [pc |-> "done", ret |-> v, finished_at |-> S.now])

RetBool(b) == [bool |-> b]

\* a plausible slip: the counter is read without being advanced
generate_message_id_reading(S) == [S EXCEPT !.message_id = IF @ = 0 THEN 1 ELSE @]

\* PanasonicCNClient._generate_message_id
generate_message_id(S) == [S EXCEPT !.message_id = @ + 1]

\* a request leaves the process: the coroutine waits at endpoint req.ep.  The
\* requests of the client carry a message id; the GET of the device's web
\* page (get_device_cookie) carries none.
Send(S, t, req) ==
    [S EXCEPT !.task[t] =
                  [pc |-> req.ep,
                   log |-> Append(@.log, req @@ [resp |-> "pending", got |-> None])] @@ @,
              !.wire = IF req.ep = "index.html" THEN @ ELSE Append(@, req.id)]

\* the answer to the request the coroutine waits for is recorded in its
\* history: its kind, and what it carried
AnsweredWith(S, t, kind, got) ==
    [S EXCEPT !.task[t].log[Len(S.task[t].log)].resp = kind,
              !.task[t].log[Len(S.task[t].log)].got = Some(got)]

Answered(S, t, kind) == AnsweredWith(S, t, kind, EmptyDict)

-----------------------------------------------------------------------------
(* PanasonicFridge.get_device_cookie, PanasonicCNClient.fetch_device_status *)
(* and PanasonicCNClient.set_device_status, cut at their awaits             *)

\* a plausible slip: the expiry test is dropped, a cookie is cached for ever
cookie_is_cached_forever(S, d) == S.dev[d].cookie # ""

\* get_device_cookie, its first statement: the cached cookie is returned
\* (self._cookie and self._cookie_create_time + COOKIE_EXPIRE >= time.time())
cookie_is_cached(S, d) ==
    /\ S.dev[d].cookie # ""
    /\ S.dev[d].cookie_create_time + COOKIE_EXPIRE >= S.now

\* get_device_cookie: the GET to the device's web page; frame names the
\* function that awaits the cookie
cookie_request(S, t, d, frame) ==
    Send(Upd(S, t, [frame |-> frame]), t,
         [ep |-> "index.html", id |-> 0, cookie |-> "",
          params |-> [deviceId |-> d, usrId |-> S.session.user_id,
                      SSID |-> S.session.ssid]])

\* an exception leaves a coroutine
Raised(name) == [raised |-> name]

\* the refresh of the coordinator and the calls of the client it awaits call
\* each other
RECURSIVE async_update_data_enumerated(_, _, _)
RECURSIVE async_update_data_next(_, _, _)

\* the three mutations of the coordinator after their await: "if not success:
\* raise Exception(...)", else the coroutine ends and returns None
coordinator_patched(S, t, success) ==
    LET S1 == Upd(S, t, [patch_ret |-> Append(S.task[t].patch_ret, success)])
    IN  IF ~success THEN Return(S1, t, Raised("Exception"))
        ELSE Return(S1, t, None)

\* set_device_status returns success: to the caller of the top-level call, or
\* into the coordinator's mutation that awaited it
set_device_status_return(S, t, success) ==
    IF S.task[t].op = "set_device_status"
        THEN Return(S, t, RetBool(success))
        ELSE coordinator_patched(S, t, success)

\* set_device_status, the loop over kwargs.items(): the keys of the partial
\* updates that the fetched status holds are overwritten
overlay(new_status, kwargs) ==
    [k \in DOMAIN new_status |->
        IF k \in DOMAIN kwargs THEN kwargs[k] ELSE new_status[k]]

\* a plausible slip: only the partial update is submitted, not the whole object
set_device_status_merge_partial(S, t, new_status) ==
    LET me == S.task[t]
        d  == me.device_id
    IN  IF new_status.none /\ me.kwargs # EmptyDict
            THEN set_device_status_return(Upd(S, t, [new_status |-> new_status]), t, FALSE)
            ELSE
                LET merged == IF new_status.none THEN None
                              ELSE Some(overlay(new_status.val, me.kwargs))
                    S1 == IF new_status.none THEN S
                          ELSE [S EXCEPT !.dev[d].status = merged.val]
                    S2 == generate_message_id(S1)
                IN  Send(Upd(S2, t, [new_status |-> merged]), t,
                         [ep |-> "FDevSetStatusInfo", id |-> S2.message_id,
                          cookie |-> me.device_cookie,
                          params |-> [usrId |-> S.session.user_id, deviceId |-> d,
                                      token |-> S.dev[d].token,
                                      params |-> Some(me.kwargs)]])

\* set_device_status from the return of fetch_device_status to the POST of
\* FDevSetStatusInfo.  new_status is the dict that device.status names, so the
\* two assignments of the loop write the same object.  With new_status = None
\* the test "key in new_status" raises TypeError (caught: return False); with
\* no partial update the loop body never runs and None is submitted.
set_device_status_merge(S, t, new_status) ==
    LET me == S.task[t]
        d  == me.device_id
    IN  IF new_status.none /\ me.kwargs # EmptyDict
            THEN set_device_status_return(Upd(S, t, [new_status |-> new_status]), t, FALSE)
            ELSE
                LET merged == IF new_status.none THEN None
                              ELSE Some(overlay(new_status.val, me.kwargs))
                    S1 == IF new_status.none THEN S
                          ELSE [S EXCEPT !.dev[d].status = merged.val]
                    S2 == generate_message_id(S1)
                IN  Send(Upd(S2, t, [new_status |-> merged]), t,
                         [ep |-> "FDevSetStatusInfo", id |-> S2.message_id,
                          cookie |-> me.device_cookie,
                          params |-> [usrId |-> S.session.user_id, deviceId |-> d,
                                      token |-> S.dev[d].token,
                                      params |-> merged]])

\* fetch_device_status returns v: to the caller of the top-level call, into
\* the loop of the coordinator's refresh, or into set_device_status
fetch_device_status_return(S, t, v) ==
    CASE S.task[t].op = "fetch_device_status" -> Return(S, t, v)
      [] S.task[t].op = "_async_update_data"  -> async_update_data_next(S, t, v)
      [] OTHER                                -> set_device_status_merge(S, t, v)

\* a plausible slip: the request is sent although no cookie was obtained
fetch_device_status_with_cookie_unchecked(S, t, device_cookie) ==
    LET S1 == generate_message_id(S)
    IN  Send(Upd(S1, t, [fetch_cookie |-> device_cookie]), t,
             [ep |-> "FDevGetStatusInfo", id |-> S1.message_id,
              cookie |-> device_cookie,
              params |-> [usrId |-> S.session.user_id,
                          deviceId |-> S.task[t].device_id,
                          token |-> S.dev[S.task[t].device_id].token]])

\* fetch_device_status once get_device_cookie has returned: None without a
\* cookie, otherwise the POST of FDevGetStatusInfo
fetch_device_status_with_cookie(S, t, device_cookie) ==
    IF device_cookie = ""
        THEN fetch_device_status_return(S, t, None)
        ELSE LET S1 == generate_message_id(S)
             IN  Send(Upd(S1, t, [fetch_cookie |-> device_cookie]), t,
                      [ep |-> "FDevGetStatusInfo", id |-> S1.message_id,
                       cookie |-> device_cookie,
                       params |-> [usrId |-> S.session.user_id,
                                   deviceId |-> S.task[t].device_id,
                                   token |-> S.dev[S.task[t].device_id].token]])

\* fetch_device_status from its call to its first await (or its return)
fetch_device_status(S, t) ==
    LET d == S.task[t].device_id
    IN  IF d \notin S.devices
            THEN fetch_device_status_return(S, t, None)
            ELSE IF cookie_is_cached(S, d)
                     THEN fetch_device_status_with_cookie(S, t, S.dev[d].cookie)
                     ELSE cookie_request(S, t, d, "fetch_device_status")

\* fetch_device_status, "device.status = data['results']": an attribute named
\* status is bound on the object; the raw_status setter is not involved
fetch_device_status_store(S, d, results) ==
    [S EXCEPT !.dev[d].has_status = TRUE, !.dev[d].status = results]

\* a plausible slip: the results are bound before the error field is looked at
fetch_device_status_response_storing(S, t, kind, results) ==
    LET d  == S.task[t].device_id
        S1 == Answered(S, t, kind)
        S2 == fetch_device_status_store(S1, d, results)
    IN  IF kind = "fail" THEN fetch_device_status_return(S1, t, None)
        ELSE IF kind = "ok"
            THEN fetch_device_status_return(
                     Upd(S2, t, [fetched |-> Some(results)]), t,
                     Some(S2.dev[d].status))
            ELSE fetch_device_status_return(S2, t, None)

\* fetch_device_status resumed by the answer to FDevGetStatusInfo: kind is
\* "fail" (transport error or non-2xx: an exception), "error" (an error field)
\* or "ok" with the results
fetch_device_status_response(S, t, kind, results) ==
    LET d  == S.task[t].device_id
        S1 == Answered(S, t, kind)
    IN  IF kind = "ok"
            THEN LET S2 == fetch_device_status_store(S1, d, results)
                 IN  fetch_device_status_return(
                         Upd(S2, t, [fetched |-> Some(results)]), t,
                         Some(S2.dev[d].status))
            ELSE fetch_device_status_return(S1, t, None)

\* set_device_status once get_device_cookie has returned: False without a
\* cookie, otherwise the call of fetch_device_status
set_device_status_with_cookie(S, t, device_cookie) ==
    IF device_cookie = ""
        THEN set_device_status_return(S, t, FALSE)
        ELSE fetch_device_status(Upd(S, t, [device_cookie |-> device_cookie]), t)

\* set_device_status from its call to its first await (or its return)
set_device_status(S, t) ==
    LET d == S.task[t].device_id
    IN  IF d \notin S.devices
            THEN set_device_status_return(S, t, FALSE)
            ELSE IF cookie_is_cached(S, d)
                     THEN set_device_status_with_cookie(S, t, S.dev[d].cookie)
                     ELSE cookie_request(S, t, d, "set_device_status")

\* a plausible slip: a failed fetch clears the cached cookie
get_device_cookie_failed_clearing(S, t, d) ==
    [S EXCEPT !.dev[d].cookie = "", !.dev[d].cookie_create_time = 0]

\* get_device_cookie, a failed fetch: the exception is logged, or the header
\* held no cookie; nothing of the object is written
get_device_cookie_failed(S, t, d) == S

\* get_device_cookie resumed by the answer to its GET: kind is "fail" (an
\* exception), or "ok" with the first segment of the set-cookie header ("" when
\* the header is missing); the value goes to the function that awaited it
get_device_cookie_response(S, t, kind, header) ==
    LET d  == S.task[t].device_id
        S1 == Answered(S, t, IF kind = "ok" /\ header = "" THEN "nocookie" ELSE kind)
        ok == kind = "ok" /\ header # ""
        S2 == IF ok
                  THEN [S1 EXCEPT !.dev[d].cookie = header,
                                  !.dev[d].cookie_create_time = S.now]
                  ELSE get_device_cookie_failed(S1, t, d)
        value == IF ok THEN header ELSE ""
        frame == S.task[t].frame
    IN  CASE frame = "get_device_cookie"   -> Return(S2, t, [cookie |-> value])
          [] frame = "fetch_device_status" -> fetch_device_status_with_cookie(S2, t, value)
          [] frame = "set_device_status"   -> set_device_status_with_cookie(S2, t, value)

\* get_device_cookie called on the device object itself
get_device_cookie(S, t) ==
    LET d == S.task[t].device_id
    IN  IF cookie_is_cached(S, d)
            THEN Return(S, t, [cookie |-> S.dev[d].cookie])
            ELSE cookie_request(S, t, d, "get_device_cookie")

\* a plausible slip: a failed submission puts the fetched status back
set_device_status_response_rollback(S, t, kind) ==
    LET me == S.task[t]
        d  == me.device_id
        S1 == Answered(S, t, kind)
    IN  IF kind = "ok"
            THEN set_device_status_return(
                     IF me.new_status.none THEN S1
                     ELSE [S1 EXCEPT !.cloud[d] = me.new_status.val],
                     t, TRUE)
            ELSE set_device_status_return(
                     IF me.fetched.none THEN S1
                     ELSE [S1 EXCEPT !.dev[d].status = me.fetched.val],
                     t, FALSE)

\* set_device_status resumed by the answer to FDevSetStatusInfo; on success
\* the cloud holds the submitted object
set_device_status_response(S, t, kind) ==
    LET me == S.task[t]
        d  == me.device_id
        S1 == Answered(S, t, kind)
    IN  IF kind = "ok"
            THEN set_device_status_return(
                     IF me.new_status.none THEN S1
                     ELSE [S1 EXCEPT !.cloud[d] = me.new_status.val],
                     t, TRUE)
            ELSE set_device_status_return(S1, t, FALSE)

-----------------------------------------------------------------------------
(* PanasonicCNClient.authenticate, cut at its awaits *)

\* authenticate from its call to the POST of UsrGetToken
authenticate(S, t) ==
    LET S1 == generate_message_id(S)
    IN  Send(S1, t, [ep |-> "UsrGetToken", id |-> S1.message_id, cookie |-> "",
                     params |-> [usrId |-> S.task[t].username]])

\* a plausible slip: the login is sent whatever UsrGetToken answered
authenticate_token_accept_any(kind, header, token_data) == TRUE

\* authenticate, what lets the code go on after UsrGetToken: no exception
\* (raise_for_status, json), no error field, a set-cookie header to split and
\* a results.token to read
authenticate_token_accept(kind, header, token_data) ==
    kind = "ok" /\ header # NoHeader /\ ~token_data.none

\* authenticate resumed by the answer to UsrGetToken, up to the POST of
\* UsrLogin: header is the first segment of the set-cookie header, token_data
\* the token of the body (None when the body has none)
authenticate_token_response(S, t, kind, header, token_data) ==
    LET me == S.task[t]
        S1 == AnsweredWith(S, t, kind, [header |-> header, token |-> token_data])
    IN  IF ~authenticate_token_accept(kind, header, token_data)
            THEN Return(S1, t, RetBool(FALSE))
            ELSE
                LET login_cookie == IF header = NoHeader THEN "" ELSE header
                    token == IF token_data.none THEN "" ELSE token_data.val
                    encoded_password == encode_password(me.username, me.password, token)
                    S2 == generate_message_id(S1)
                IN  Send(Upd(S2, t, [login_cookie |-> login_cookie, token |-> token]), t,
                         [ep |-> "UsrLogin", id |-> S2.message_id,
                          cookie |-> login_cookie,
                          params |-> [teleId |-> me.mac, usrId |-> me.username,
                                      pwd |-> encoded_password]])

\* the four assignments from results, in the order of the source; each reads
\* results[key] and raises KeyError when the key is missing
LoginFields ==
    << <<"usrId", "user_id">>, <<"realFamilyId", "real_family_id">>,
       <<"familyId", "family_id">>, <<"ssId", "ssid">> >>

RECURSIVE authenticate_save(_, _, _)
authenticate_save(sess, results, i) ==
    IF i > Len(LoginFields) THEN [session |-> sess, raised |-> FALSE]
    ELSE IF LoginFields[i][1] \notin DOMAIN results
             THEN [session |-> sess, raised |-> TRUE]
             ELSE authenticate_save(
                      [sess EXCEPT ![LoginFields[i][2]] = results[LoginFields[i][1]]],
                      results, i + 1)

\* authenticate resumed by the answer to UsrLogin: results is the results
\* object of the body (None when the body has none)
authenticate_login_response(S, t, kind, header, results) ==
    LET S1 == AnsweredWith(S, t, kind, [header |-> header, results |-> results])
    IN  IF kind # "ok" \/ header = NoHeader
            THEN Return(S1, t, RetBool(FALSE))
            ELSE
                LET S2 == IF header # "" THEN [S1 EXCEPT !.session.cookie = header]
                          ELSE S1
                IN  IF results.none
                        THEN Return(S2, t, RetBool(FALSE))
                        ELSE LET saved == authenticate_save(S2.session, results.val, 1)
                             IN  Return([S2 EXCEPT !.session = saved.session], t,
                                        RetBool(~saved.raised))

-----------------------------------------------------------------------------
(* PanasonicCNClient.get_devices and the device registry *)

\* the methods PanasonicDevice declares with @abstractmethod
PanasonicDevice_abstractmethods ==
    {"get_device_cookie", "parse_status", "get_entities", "get_preference"}

\* the methods the body of class PanasonicFridge defines
PanasonicFridge_methods ==
    {"get_device_cookie", "parse_form", "get_preference", "get_entities"}

\* PanasonicFridge.__abstractmethods__: what the ABC machinery leaves abstract.
\* Python refuses to create an object of a class for which this is not empty
\* (TypeError: Can't instantiate abstract class).
PanasonicFridge_abstractmethods ==
    PanasonicDevice_abstractmethods \ PanasonicFridge_methods

\* DEVICE_TYPES as mapping.py fills it: every registered code names
\* PanasonicFridge
RegisteredClasses == [code \in DEVICE_TYPES |-> PanasonicFridge_abstractmethods]

\* the for-loop of get_devices over data["results"]["devList"], from record i:
\* an identifier without "_" raises IndexError at split("_")[1]; a registered
\* type code calls the class, which raises or builds the object
RECURSIVE get_devices_loop(_, _, _)
get_devices_loop(S, devList, i) ==
    IF i > Len(devList) THEN [S |-> S, raised |-> FALSE]
    ELSE LET device_id == devList[i]
         IN  IF Len(device_id) < 2 THEN [S |-> S, raised |-> TRUE]
             ELSE IF device_id[2] \notin DEVICE_TYPES
                      THEN get_devices_loop(S, devList, i + 1)
                      ELSE IF S.registry[device_id[2]] # {}
                               THEN [S |-> S, raised |-> TRUE]
                               ELSE get_devices_loop(
                                        [S EXCEPT !.devices = @ \cup {device_id},
                                                  !.dev = (device_id :> NewDevice(device_id)) @@ @],
                                        devList, i + 1)

\* get_devices from its call to the POST of UsrGetBindDevInfo
get_devices(S, t) ==
    LET S1 == generate_message_id(S)
    IN  Send(S1, t, [ep |-> "UsrGetBindDevInfo", id |-> S1.message_id,
                     cookie |-> S.session.cookie,
                     params |-> [usrId |-> S.session.user_id,
                                 realFamilyId |-> S.session.real_family_id,
                                 familyId |-> S.session.family_id]])

\* the dict get_devices returns: the client's own table (self._devices), or a
\* new empty dict
TheTable(S) == [own_table |-> TRUE, keys |-> S.devices]
NewEmptyDict == [own_table |-> FALSE, keys |-> {}]

\* get_devices returns table: to the caller of the top-level call, or into
\* the coordinator's refresh
get_devices_return(S, t, table) ==
    IF S.task[t].op = "get_devices"
        THEN Return(S, t, table)
        ELSE async_update_data_enumerated(S, t, table)

\* self._devices.clear(): the table forgets its objects.  An object an entity
\* still names (self._device) lives on as that entity's own, out of the table.
devices_clear(S) ==
    LET kept(e) == IF e.in_table
                       THEN [e EXCEPT !.in_table = FALSE, !.device = S.dev[e.device_id]]
                       ELSE e
    IN  [S EXCEPT !.devices = {},
                  !.entities = [i \in DOMAIN S.entities |-> kept(S.entities[i])]]

\* a plausible slip: a failed enumeration drops the session
get_devices_response_invalidating(S, t, kind, devList) ==
    LET S1 == AnsweredWith(S, t, kind, [devList |-> devList])
    IN  IF kind # "ok"
            THEN get_devices_return([S1 EXCEPT !.session = NoSession], t, NewEmptyDict)
            ELSE LET cleared == devices_clear(S1)
                     looped == get_devices_loop(cleared, devList, 1)
                 IN  IF looped.raised
                         THEN get_devices_return(looped.S, t, NewEmptyDict)
                         ELSE get_devices_return(looped.S, t, TheTable(looped.S))

\* get_devices resumed by the answer to UsrGetBindDevInfo
get_devices_response(S, t, kind, devList) ==
    LET S1 == AnsweredWith(S, t, kind, [devList |-> devList])
    IN  IF kind # "ok"
            THEN get_devices_return(S1, t, NewEmptyDict)
            ELSE LET cleared == devices_clear(S1)
                     looped == get_devices_loop(cleared, devList, 1)
                 IN  IF looped.raised
                         THEN get_devices_return(looped.S, t, NewEmptyDict)
                         ELSE get_devices_return(looped.S, t, TheTable(looped.S))

-----------------------------------------------------------------------------
(* PanasonicCNDataUpdateCoordinator, cut at its awaits *)

\* the public methods and properties class PanasonicDevice defines
PanasonicDevice_methods ==
    {"id", "raw_status", "parsed_status", "type", "sub_type", "name", "token",
     "get_device_cookie", "parse_status", "get_entities", "get_preference",
     "get_value", "get_select_items", "get_switch_state", "get_number_value"}

\* FRIDGE_ENTITIES["Fridge-11"]["select"]: the option keys of each group
Fridge11Select ==
    [group \in {"mode"} |->
        {"quickFreeze", "vacation", "quickicing", "icingStop", "icingDeice"}]

\* the keys of coordinator._devices_dict: the name is bound to the client's
\* table, or to a dict of its own
devices_dict_keys(S) ==
    IF S.devices_dict.own_table THEN S.devices ELSE S.devices_dict.keys

\* _async_update_data from its call to the POST of UsrGetBindDevInfo
async_update_data(S, t) == get_devices(S, t)

\* _async_update_data, the for-loop over self._devices_dict.values() from the
\* next device: fetch_device_status is awaited for it, and after the last one
\* self._devices_dict is returned
async_update_data_loop(S, t) ==
    LET me == S.task[t]
    IN  IF me.queue = <<>>
            THEN Return(S, t, S.devices_dict)
            ELSE fetch_device_status(
                     Upd(S, t, [device_id |-> Head(me.queue),
                                queue |-> Tail(me.queue),
                                fetch_calls |-> Append(me.fetch_calls, Head(me.queue))]),
                     t)

\* a plausible slip: a fetch that yields nothing ends the cycle
async_update_data_next_aborting(S, t, v) ==
    IF v.none THEN Return(S, t, Raised("UpdateFailed"))
    ELSE async_update_data_loop(S, t)

\* _async_update_data once fetch_device_status has returned v: the value is
\* dropped and the loop goes on (fetch_device_status raises nothing, so the
\* except branch of the loop is never taken)
async_update_data_next(S, t, v) == async_update_data_loop(S, t)

\* _async_update_data once get_devices has returned table: the name
\* _devices_dict is bound to it and the loop starts; a dict yields its values
\* in the order of insertion, which is the order of the answer's devList
async_update_data_enumerated(S, t, table) ==
    LET devList == S.task[t].log[Len(S.task[t].log)].got.val.devList
        values == IF table.own_table
                      THEN SelectSeq(devList, LAMBDA id : id \in S.devices)
                      ELSE <<>>
        S1 == [S EXCEPT !.devices_dict = table]
    IN  async_update_data_loop(Upd(S1, t, [queue |-> values]), t)

\* the await of set_device_status(device_id, **kwargs) in a mutation
coordinator_patch(S, t, kwargs) ==
    set_device_status(
        Upd(S, t, [kwargs |-> kwargs,
                   patches |-> Append(S.task[t].patches, kwargs)]), t)

\* a plausible slip: the two integers of the conditional are swapped
async_set_switch_state_inverted(S, t) ==
    LET me == S.task[t]
    IN  coordinator_patch(S, t, [k \in {me.key} |-> IF me.state THEN 0 ELSE 1])

\* async_set_switch_state(device_id, state, key)
async_set_switch_state(S, t) ==
    LET me == S.task[t]
    IN  coordinator_patch(S, t, [k \in {me.key} |-> IF me.state THEN 1 ELSE 0])

\* a plausible slip: int() rounds to the nearest integer
int_rounding(value) == (value + 5) \div 10

\* Python's int() on a float, which the model carries in tenths (39 is 3.9):
\* the fractional part is dropped, towards zero
int(value) ==
    IF value >= 0 THEN value \div 10 ELSE -((-value) \div 10)

\* async_set_number_value(device_id, value, control_key)
async_set_number_value(S, t) ==
    LET me == S.task[t]
    IN  coordinator_patch(S, t, [k \in {me.key} |-> int(me.value)])

\* async_select_option(device_id, select_key, option_key):
\* self._devices_dict[device_id] raises KeyError for an id without entry, and
\* device.get_select_options raises AttributeError when the class has no
\* such attribute; otherwise every option gets "status" 0, the chosen one 1,
\* and the options are handed to set_device_status as keyword arguments
async_select_option(S, t) ==
    LET me == S.task[t]
    IN  IF me.device_id \notin devices_dict_keys(S)
            THEN Return(S, t, Raised("KeyError"))
        ELSE IF "get_select_options" \notin PanasonicDevice_methods \cup PanasonicFridge_methods
            THEN Return(S, t, Raised("AttributeError"))
        ELSE IF me.option_key \notin Fridge11Select[me.select_key]
            THEN Return(S, t, Raised("KeyError"))
        ELSE coordinator_patch(S, t,
                 [k \in Fridge11Select[me.select_key] |->
                     [status |-> IF k = me.option_key THEN 1 ELSE 0]])

-----------------------------------------------------------------------------
(* Initial states *)

\* an account as UsrLogin reports it
Account1 ==
    [k \in {"usrId", "realFamilyId", "familyId", "ssId"} |->
        CASE k = "usrId" -> "usr1"
          [] k = "realFamilyId" -> "rfam1"
          [] k = "familyId" -> "fam1"
          [] OTHER -> "ss1"]

\* the session fields after a successful authenticate for Account1
Session1 ==
    [ssid |-> "ss1", cookie |-> "SSID=s1", user_id |-> "usr1",
     family_id |-> "fam1", real_family_id |-> "rfam1"]

\* PanasonicCNClient.__init__: a client that has not talked to the cloud
Init ==
    /\ session = NoSession
    /\ message_id = 0
    /\ wire = <<>>
    /\ entities = <<>>
    /\ devices = {}
    /\ devices_dict = NewEmptyDict
    /\ registry = RegisteredClasses
    /\ dev = EmptyDict
    /\ default_params = Fridge11Defaults
    /\ now = 0
    /\ cloud \in Clouds
    /\ task = [t \in Tasks |-> IdleTask]
    /\ parse_in = EmptyDict
    /\ parse_out = None

\* The device model on its own: a logged-in client whose table holds one
\* device object with the attributes PanasonicDevice.__init__ assigns.  (The
\* registry cannot produce this table: see get_devices_loop.)
InitDevice ==
    /\ session = Session1
    /\ message_id = 0
    /\ wire = <<>>
    /\ entities = <<>>
    /\ devices = {Fridge1}
    /\ devices_dict = NewEmptyDict
    /\ registry = RegisteredClasses
    /\ dev = [d \in {Fridge1} |-> NewDevice(d)]
    /\ default_params = Fridge11Defaults
    /\ now = 0
    /\ cloud \in Clouds
    /\ task = [t \in Tasks |-> IdleTask]
    /\ parse_in = EmptyDict
    /\ parse_out = None

\* a subclass of PanasonicFridge that defines parse_status, so that objects
\* of it can be created
ConcreteFridge_abstractmethods == PanasonicFridge_abstractmethods \ {"parse_status"}

\* The coordinator on its own: a logged-in client and a registry whose class
\* can be instantiated, so that an enumeration fills the table.  (With the
\* registry of mapping.py the table stays empty: see get_devices_loop.)
InitCoordinator ==
    /\ session = Session1
    /\ message_id = 0
    /\ wire = <<>>
    /\ entities = <<>>
    /\ devices = {}
    /\ devices_dict = NewEmptyDict
    /\ registry = [code \in DEVICE_TYPES |-> ConcreteFridge_abstractmethods]
    /\ dev = EmptyDict
    /\ default_params = Fridge11Defaults
    /\ now = 0
    /\ cloud \in Clouds
    /\ task = [t \in Tasks |-> IdleTask]
    /\ parse_in = EmptyDict
    /\ parse_out = None

-----------------------------------------------------------------------------
(* Actions *)

\* a coroutine can be started: the previous call of the task has returned
CanStart(t) ==
    /\ task[t].pc \in {"idle", "done"}
    /\ message_id < MaxMessages

\* the locals of a call that starts, with the state it found
Started(S, t, fields) ==
    [S EXCEPT !.task[t] =
        fields @@ [pre |-> S.dev, pre_devices |-> S.devices,
                   pre_session |-> S.session,
                   started_at |-> S.now] @@ IdleTask]

\* time passes, by half a cookie lifetime
Tick ==
    /\ now < MaxTicks * (COOKIE_EXPIRE \div 2)
    /\ now' = now + (COOKIE_EXPIRE \div 2)
    /\ UNCHANGED <<session, message_id, wire, devices, devices_dict, registry, dev,
                   default_params, cloud, task, parse_in, parse_out, entities>>

\* device.get_device_cookie() is called
GetDeviceCookie(t) ==
    /\ CanStart(t)
    /\ \E d \in devices :
          Commit(get_device_cookie(
                     Started(St, t, [op |-> "get_device_cookie", device_id |-> d]), t))

\* the device's web page answers
CookieResponse(t) ==
    /\ task[t].pc = "index.html"
    /\ \E kind \in {"ok", "fail"}, header \in DeviceCookies \cup {""} :
          /\ kind = "fail" => header = ""
          /\ Commit(get_device_cookie_response(St, t, kind, header))

\* client.fetch_device_status(device_id) is called
FetchDeviceStatus(t) ==
    /\ CanStart(t)
    /\ \E d \in {Fridge1} :
          Commit(fetch_device_status(
                     Started(St, t, [op |-> "fetch_device_status", device_id |-> d]), t))

\* FDevGetStatusInfo answers, with the status the cloud holds
StatusResponse(t) ==
    /\ task[t].pc = "FDevGetStatusInfo"
    /\ \E kind \in {"ok", "error", "fail"} :
          Commit(fetch_device_status_response(St, t, kind, cloud[task[t].device_id]))

\* client.set_device_status(device_id, **kwargs) is called
SetDeviceStatus(t) ==
    /\ CanStart(t)
    /\ \E d \in {Fridge1}, kwargs \in Updates :
          Commit(set_device_status(
                     Started(St, t, [op |-> "set_device_status", device_id |-> d,
                                     kwargs |-> kwargs]), t))

\* FDevSetStatusInfo answers
SetResponse(t) ==
    /\ task[t].pc = "FDevSetStatusInfo"
    /\ \E kind \in {"ok", "error", "fail"} :
          Commit(set_device_status_response(St, t, kind))

\* client.authenticate(mac, username, password) is called
Authenticate(t) ==
    /\ CanStart(t)
    /\ \E username \in {"alice", "bob"} :
          Commit(authenticate(
                     Started(St, t, [op |-> "authenticate", mac |-> "00:11:22",
                                     username |-> username,
                                     password |-> "5F4DCC3B"]), t))

\* UsrGetToken answers
TokenResponse(t) ==
    /\ task[t].pc = "UsrGetToken"
    /\ \E kind \in {"ok", "error", "fail"},
          header \in {NoHeader, "SSID=t1", "SSID=t2"},
          token_data \in {None, Some(""), Some("TK1"), Some("TK2")} :
          /\ kind # "ok" => (header = NoHeader /\ token_data = None)
          /\ Commit(authenticate_token_response(St, t, kind, header, token_data))

\* what the results of UsrLogin may hold: the account, or part of it
LoginResults ==
    { None, Some(Account1),
      Some([k \in {"usrId", "realFamilyId"} |-> Account1[k]]) }

\* UsrLogin answers
LoginResponse(t) ==
    /\ task[t].pc = "UsrLogin"
    /\ \E kind \in {"ok", "error", "fail"},
          header \in {NoHeader, "", "SSID=s1"},
          results \in LoginResults :
          /\ kind # "ok" => (header = NoHeader /\ results = None)
          /\ Commit(authenticate_login_response(St, t, kind, header, results))

\* client.get_devices() is called
GetDevices(t) ==
    /\ CanStart(t)
    /\ Commit(get_devices(Started(St, t, [op |-> "get_devices"]), t))

\* UsrGetBindDevInfo answers
DevListResponse(t) ==
    /\ task[t].pc = "UsrGetBindDevInfo"
    /\ \E kind \in {"ok", "error", "fail"}, devList \in DevLists :
          /\ kind # "ok" => devList = <<>>
          /\ Commit(get_devices_response(St, t, kind, devList))

\* the host asks the coordinator for a refresh
AsyncUpdateData(t) ==
    /\ CanStart(t)
    /\ Commit(async_update_data(Started(St, t, [op |-> "_async_update_data"]), t))

\* a switch entity is turned on or off
AsyncSetSwitchState(t) ==
    /\ CanStart(t)
    /\ \E d \in {Fridge1}, state \in BOOLEAN, key \in {"vacation"} :
          Commit(async_set_switch_state(
                     Started(St, t, [op |-> "async_set_switch_state", device_id |-> d,
                                     state |-> state, key |-> key]), t))

\* the values a number entity may be set to, in tenths: 3.9, -3.9, 5.0, -0.5
NumberValues == {39, -39, 50, -5}

\* a number entity is set
AsyncSetNumberValue(t) ==
    /\ CanStart(t)
    /\ \E d \in {Fridge1}, value \in NumberValues, key \in {"PCTempSet"} :
          Commit(async_set_number_value(
                     Started(St, t, [op |-> "async_set_number_value", device_id |-> d,
                                     value |-> value, key |-> key]), t))

\* an option of a select entity is chosen
AsyncSelectOption(t) ==
    /\ CanStart(t)
    /\ \E d \in {Fridge1}, option_key \in {"vacation", "quickicing"} :
          Commit(async_select_option(
                     Started(St, t, [op |-> "async_select_option", device_id |-> d,
                                     select_key |-> "mode",
                                     option_key |-> option_key]), t))

\* parse_form is applied to the argument
ParseForm ==
    /\ parse_out = None
    /\ LET r == parse_form(default_params, parse_in)
       IN  /\ parse_out' = Some(r.ret)
           /\ default_params' = r.table
    /\ UNCHANGED <<session, message_id, wire, devices, devices_dict, registry, dev,
                   now, cloud, task, parse_in, entities>>

-----------------------------------------------------------------------------
(* Specifications *)

\* the integration as it runs: the client from its construction
Next ==
    \E t \in Tasks :
        \/ Authenticate(t)
        \/ TokenResponse(t)
        \/ LoginResponse(t)
        \/ GetDevices(t)
        \/ DevListResponse(t)
        \/ FetchDeviceStatus(t)
        \/ SetDeviceStatus(t)
        \/ AsyncUpdateData(t)
        \/ AsyncSelectOption(t)

Spec == Init /\ [][Next]_vars

\* the device model and the per-device calls of the client
NextDevice ==
    \/ Tick
    \/ \E t \in Tasks :
        \/ GetDeviceCookie(t)
        \/ CookieResponse(t)
        \/ FetchDeviceStatus(t)
        \/ StatusResponse(t)
        \/ SetDeviceStatus(t)
        \/ SetResponse(t)
        \/ GetDevices(t)
        \/ DevListResponse(t)

SpecDevice == InitDevice /\ [][NextDevice]_vars

\* the coordinator: refresh cycles and mutations over an enumerated table
NextCoordinator ==
    \E t \in Tasks :
        \/ AsyncUpdateData(t)
        \/ DevListResponse(t)
        \/ CookieResponse(t)
        \/ StatusResponse(t)
        \/ SetResponse(t)
        \/ AsyncSetSwitchState(t)
        \/ AsyncSetNumberValue(t)
        \/ AsyncSelectOption(t)

SpecCoordinator == InitCoordinator /\ [][NextCoordinator]_vars

\* raw statuses handed to parse_form: any subset of these keys (three of the
\* table, two that the table does not hold), with any of these values
RawKeys == {"PCTempSet", "quickFreeze", "nanoe", "PCTempCur", "FCTempCur"}
RawValues == {0, 1, 7}
RawStatuses == UNION {[K -> RawValues] : K \in SUBSET RawKeys}

InitParse ==
    /\ session = NoSession
    /\ message_id = 0
    /\ wire = <<>>
    /\ entities = <<>>
    /\ devices = {}
    /\ devices_dict = NewEmptyDict
    /\ registry = RegisteredClasses
    /\ dev = EmptyDict
    /\ default_params = Fridge11Defaults
    /\ now = 0
    /\ cloud = CHOOSE c \in Clouds : TRUE
    /\ task = [t \in Tasks |-> IdleTask]
    /\ parse_in \in RawStatuses
    /\ parse_out = None

SpecParse == InitParse /\ [][ParseForm]_vars

\* The constructor on its own: device objects built from the identifiers a
\* device list can carry.  Besides the three-segment identifiers of the
\* environment: another equipment type, an equipment type with an underscore,
\* identifiers in which the type code occurs again, and one with no equipment
\* type at all.
DeviceIds ==
    {Fridge1, Fridge2, Aircon1,
     <<"CAFE00112233", "0100", "F12">>,
     <<"CAFE00112233", "0100", "NR", "W56">>,
     <<"CAFE00112233", "0100", "0100", "F11">>,
     <<"CAFE00112233", "0100", "F11", "0100", "X">>,
     <<"CAFE00112233", "0100", "F11", "0100", "Y">>,
     <<"CAFE00112233", "0100">>,
     Malformed}

\* PanasonicDevice(device_info, client): the object, or the IndexError of
\* split("_")[1] / split("_" + type + "_")[1] for an identifier with fewer
\* than three segments
PanasonicDevice_init(device_id) ==
    IF Len(device_id) < 3 THEN Raised("IndexError")
    ELSE [value |-> NewDevice(device_id)]

InitToken ==
    /\ session = NoSession
    /\ message_id = 0
    /\ wire = <<>>
    /\ entities = <<>>
    /\ devices = {}
    /\ devices_dict = NewEmptyDict
    /\ registry = RegisteredClasses
    /\ dev = EmptyDict
    /\ default_params = Fridge11Defaults
    /\ now = 0
    /\ cloud = CHOOSE c \in Clouds : TRUE
    /\ task = [t \in Tasks |-> IdleTask]
    /\ parse_in = EmptyDict
    /\ parse_out = None

\* one more object is constructed, from an identifier used before or not
Construct ==
    \E device_id \in DeviceIds :
        LET made == PanasonicDevice_init(device_id)
        IN  /\ "value" \in DOMAIN made
            /\ devices' = devices \cup {device_id}
            /\ dev' = (device_id :> made.value) @@ dev
            /\ UNCHANGED <<session, message_id, wire, devices_dict, registry,
                           default_params, now, cloud, task, parse_in, parse_out,
                           entities>>

SpecToken == InitToken /\ [][Construct]_vars

-----------------------------------------------------------------------------
(* Capability queries of PanasonicDevice *)

\* reading self._parsed_status on an object that never got the attribute
AttributeError == [raised |-> "AttributeError"]

\* PanasonicDevice.get_value: self._parsed_status.get(key)
get_value(device, key) ==
    IF ~device.has_parsed THEN AttributeError
    ELSE IF key \in DOMAIN device.parsed_status
             THEN [value |-> Some(device.parsed_status[key])]
             ELSE [value |-> None]

\* PanasonicDevice.get_switch_state: self._parsed_status.get(key, 0) == 1
get_switch_state(device, key) ==
    IF ~device.has_parsed THEN AttributeError
    ELSE [value |-> (IF key \in DOMAIN device.parsed_status
                         THEN device.parsed_status[key] ELSE 0) = 1]

\* PanasonicDevice.get_number_value: float() of the stored value (the model's
\* values are integers, which float() accepts), None when the key is missing
get_number_value(device, key) ==
    IF ~device.has_parsed THEN AttributeError
    ELSE IF key \in DOMAIN device.parsed_status
             THEN [value |-> Some(device.parsed_status[key])]
             ELSE [value |-> None]

\* FRIDGE_ENTITIES["Fridge-11"]: the capability manifest without its
\* default_params (Fridge11Defaults).  Display names and units are texts that
\* nothing compares; they stand here as the entry's unique_id.
Fridge11Preference ==
    [select |->
        << [unique_id |-> "mode", key |-> "mode", name |-> "mode",
            options |-> << [name |-> "quickFreeze", key |-> "quickFreeze"],
                           [name |-> "vacation", key |-> "vacation"],
                           [name |-> "quickicing", key |-> "quickicing"],
                           [name |-> "icingStop", key |-> "icingStop"],
                           [name |-> "icingDeice", key |-> "icingDeice"] >>] >>,
     sensor |->
        << [unique_id |-> "pc_temp_current", name |-> "pc_temp_current", key |-> "PCTempCur"],
           [unique_id |-> "fc_temp_current", name |-> "fc_temp_current", key |-> "FCTempCur"],
           [unique_id |-> "scb1_temp_current", name |-> "scb1_temp_current", key |-> "SCB1TempCur"] >>,
     number |->
        << [unique_id |-> "pc_temp_set", name |-> "pc_temp_set", key |-> "PCTempSet",
            min_value |-> 0, max_value |-> 10, step |-> 1],
           [unique_id |-> "fc_temp_set", name |-> "fc_temp_set", key |-> "FCTempSet",
            min_value |-> -20, max_value |-> 0, step |-> 1],
           [unique_id |-> "scb1_temp_set", name |-> "scb1_temp_set", key |-> "SCB1TempSet",
            min_value |-> -20, max_value |-> 10, step |-> 1] >>]

\* the attributes a device object has: those PanasonicDevice.__init__ assigns,
\* status once fetch_device_status has bound it, _parsed_status once the
\* raw_status setter has run
Attributes(device) ==
    {"_id", "_type", "_sub_type", "_mno", "_name", "_raw_status", "_client",
     "_cookie", "_cookie_create_time", "_token"}
        \cup (IF device.has_status THEN {"status"} ELSE {})
        \cup (IF device.has_parsed THEN {"_parsed_status"} ELSE {})

\* self.<name> for the dict-valued attributes: the dict, or AttributeError
Attr(device, name) ==
    IF name \notin Attributes(device) THEN AttributeError
    ELSE CASE name = "_raw_status"    -> [value |-> device.raw_status]
           [] name = "status"         -> [value |-> device.status]
           [] name = "_parsed_status" -> [value |-> device.parsed_status]

\* the entity dict get_entities builds for one entry of the manifest; the
\* unique id is f"{self._id}_{entry['unique_id']}"
entity(device, type, entry) ==
    [type |-> type, unique_id |-> Append(device.id, entry.unique_id),
     key |-> entry.key]

\* PanasonicFridge.get_entities: every select entry, then the sensor and the
\* number entries whose key is in self._status
get_entities(device) ==
    LET entity_defs == Fridge11Preference
        selects == [i \in DOMAIN entity_defs.select |->
                       entity(device, "select", entity_defs.select[i])]
        status == Attr(device, "_status")
    IN  IF entity_defs.sensor = <<>> /\ entity_defs.number = <<>>
            THEN [value |-> selects]
        ELSE IF "raised" \in DOMAIN status THEN status
        ELSE LET present(entry) == entry.key \in DOMAIN status.value
                 sensors == SelectSeq(entity_defs.sensor, present)
                 numbers == SelectSeq(entity_defs.number, present)
             IN  [value |-> selects
                     \o [i \in DOMAIN sensors |-> entity(device, "sensor", sensors[i])]
                     \o [i \in DOMAIN numbers |-> entity(device, "number", numbers[i])]]

\* PanasonicDevice.get_select_items: for the group of the manifest whose key
\* is key, one item per element of select_group["items"], with the flag
\* self._parsed_status.get(item["key"], 0) == 1; {} when no group has the key
get_select_items(device, key) ==
    LET groups == SelectSeq(Fridge11Preference.select, LAMBDA g : g.key = key)
    IN  IF groups = <<>> THEN [value |-> EmptyDict]
        ELSE IF "items" \notin DOMAIN groups[1] THEN Raised("KeyError")
        ELSE LET items == groups[1].items
                 parsed == Attr(device, "_parsed_status")
             IN  IF items = <<>> THEN [value |-> EmptyDict]
                 ELSE IF "raised" \in DOMAIN parsed THEN parsed
                 ELSE [value |->
                          [k \in {items[i].key : i \in DOMAIN items} |->
                              [key |-> k,
                               name |-> items[CHOOSE i \in DOMAIN items : items[i].key = k].name,
                               status |-> (IF k \in DOMAIN parsed.value
                                               THEN parsed.value[k] ELSE 0) = 1]]]

\* Two coroutines on the one event loop: the host runs a refresh and the
\* service calls of the entities as separate tasks, and nothing in
\* set_device_status or fetch_device_status holds a lock across an await
Tasks2 == {"main", "other"}

\* the device model with two tasks, at the instant the device's cookie has
\* been fetched: both tasks find it cached
InitRace ==
    /\ session = Session1
    /\ message_id = 0
    /\ wire = <<>>
    /\ entities = <<>>
    /\ devices = {Fridge1}
    /\ devices_dict = NewEmptyDict
    /\ registry = RegisteredClasses
    /\ dev = [d \in {Fridge1} |->
                [NewDevice(d) EXCEPT !.cookie = "JSESSIONID=dA",
                                     !.cookie_create_time = 0]]
    /\ default_params = Fridge11Defaults
    /\ now = 0
    /\ cloud = CHOOSE c \in Clouds : c[Fridge1].vacation = 0 /\ c[Fridge1].quickFreeze = 0
    /\ task = [t \in Tasks2 |-> IdleTask]
    /\ parse_in = EmptyDict
    /\ parse_out = None

NextRace ==
    \E t \in Tasks2 :
        \/ FetchDeviceStatus(t)
        \/ SetDeviceStatus(t)
        \/ StatusResponse(t)
        \/ SetResponse(t)

SpecRace == InitRace /\ [][NextRace]_vars

\* _encode_password on its own: the arguments it is called with
Usernames == {"alice", "bob", "al", "ice", ""}
PasswordHashes == {"5F4DCC3B", "E10ADC39", "5F4DCC3Bal", "", "ice"}
Tokens == {"", "TK1", "TK2", "bob"}

InitEncode ==
    /\ session \in {NoSession, Session1}
    /\ message_id = 0
    /\ wire = <<>>
    /\ entities = <<>>
    /\ devices = {}
    /\ devices_dict = NewEmptyDict
    /\ registry = RegisteredClasses
    /\ dev = EmptyDict
    /\ default_params = Fridge11Defaults
    /\ now = 0
    /\ cloud = CHOOSE c \in Clouds : TRUE
    /\ task \in {[t \in Tasks |->
                     [IdleTask EXCEPT !.username = u, !.password = p, !.token = k]] :
                  u \in Usernames, p \in PasswordHashes, k \in Tokens}
    /\ parse_in = EmptyDict
    /\ parse_out = None

\* self._encode_password(username, password, token) is evaluated
EncodePassword(t) ==
    /\ task[t].pc = "idle"
    /\ Commit(Return(Upd(St, t, [op |-> "_encode_password"]), t,
                     [value |-> encode_password(task[t].username, task[t].password,
                                                task[t].token)]))

SpecEncode == InitEncode /\ [][\E t \in Tasks : EncodePassword(t)]_vars

-----------------------------------------------------------------------------
(* The raw_status setter of PanasonicDevice *)

\* the sub-type models FRIDGE_ENTITIES has a manifest for
FRIDGE_ENTITIES_keys == {"Fridge-11"}

\* parse_status as a subclass has to supply it; the parsing code the
\* repository has is PanasonicFridge.parse_form, whose first statement,
\* FRIDGE_ENTITIES[self._sub_type], raises KeyError for a sub-type without
\* a manifest
parse_status(device, table, value) ==
    IF device.sub_type \notin FRIDGE_ENTITIES_keys THEN Raised("KeyError")
    ELSE [value |-> parse_form(table, value).ret]

\* a plausible slip: the two assignments of the setter are swapped
raw_status_setter_raw_first(S, t, d, value) ==
    LET S1 == [S EXCEPT !.dev[d].raw_status = value]
        parsed == parse_status(S1.dev[d], S1.default_params, value)
    IN  IF "raised" \in DOMAIN parsed THEN Return(S1, t, parsed)
        ELSE Return([S1 EXCEPT !.dev[d].has_parsed = TRUE,
                               !.dev[d].parsed_status = parsed.value],
                    t, None)

\* device.raw_status = value: self._parsed_status = self.parse_status(value),
\* then self._raw_status = value; an exception of parse_status leaves the
\* setter before either assignment.  There is no await in it.
raw_status_setter(S, t, d, value) ==
    LET parsed == parse_status(S.dev[d], S.default_params, value)
    IN  IF "raised" \in DOMAIN parsed THEN Return(S, t, parsed)
        ELSE Return([S EXCEPT !.dev[d].has_parsed = TRUE,
                              !.dev[d].parsed_status = parsed.value,
                              !.dev[d].raw_status = value],
                    t, None)

\* the raw statuses handed to the setter
SetterValues == CloudStatuses \cup Updates

\* device_info["params"]["devSubTypeId"] of the two fridges of the setter's
\* specification: one with a manifest, one without
SubTypes == (Fridge1 :> "Fridge-11") @@ (Fridge2 :> "Fridge-12")

\* The setter on its own: two device objects of a class that defines
\* parse_status, as PanasonicDevice.__init__ leaves them
InitSetter ==
    /\ session = Session1
    /\ message_id = 0
    /\ wire = <<>>
    /\ entities = <<>>
    /\ devices = {Fridge1, Fridge2}
    /\ devices_dict = NewEmptyDict
    /\ registry = [code \in DEVICE_TYPES |-> ConcreteFridge_abstractmethods]
    /\ dev = [d \in {Fridge1, Fridge2} |-> [sub_type |-> SubTypes[d]] @@ NewDevice(d)]
    /\ default_params = Fridge11Defaults
    /\ now = 0
    /\ cloud = CHOOSE c \in Clouds : TRUE
    /\ task = [t \in Tasks |-> IdleTask]
    /\ parse_in = EmptyDict
    /\ parse_out = None

\* device.raw_status = value is executed
SetRawStatus(t) ==
    /\ CanStart(t)
    /\ \E d \in devices, value \in SetterValues :
          Commit(raw_status_setter(
                     Started(St, t, [op |-> "raw_status", device_id |-> d,
                                     new_status |-> Some(value)]), t, d, value))

SpecSetter == InitSetter /\ [][\E t \in Tasks : SetRawStatus(t)]_vars

-----------------------------------------------------------------------------
(* The sensor entities (sensor.py) *)

\* PanasonicCNSensor.__init__(coordinator, device, entity_info): the entity
\* keeps the device object itself (self._device = device), its entity_info,
\* and no value yet (self._data = None).  in_table tells whether the object
\* it names is the one the client's table holds under device_id; if not,
\* device is the object (and until then a blank of the same shape).
PanasonicCNSensor_init(S, device_id, entity_info) ==
    [device_id |-> device_id, in_table |-> TRUE, device |-> NewDevice(device_id),
     entity_info |-> entity_info, data |-> None,
     called_at |-> S.message_id, called_in_table |-> TRUE, raised |-> FALSE]

\* self._device of an entity
entity_device(S, e) == IF e.in_table THEN S.dev[e.device_id] ELSE e.device

\* PanasonicCNSensor._handle_coordinator_update:
\* self._data = self._device.get_number_value(self._entity_info["key"]); an
\* exception of get_number_value leaves _data as it was
handle_coordinator_update(S, i) ==
    LET e == S.entities[i]
        got == get_number_value(entity_device(S, e), e.entity_info.key)
        called == [e EXCEPT !.called_at = S.message_id,
                            !.called_in_table = e.in_table,
                            !.raised = "raised" \in DOMAIN got]
    IN  [S EXCEPT !.entities[i] =
            IF "raised" \in DOMAIN got THEN called
            ELSE [called EXCEPT !.data = got.value]]

\* the platform creates the sensor entity of one sensor entry of the manifest
\* for a device of coordinator.data, once a refresh has completed; the entry
\* is one whose key the device's fetched status holds
NewSensor ==
    /\ entities = <<>>
    /\ \E t \in Tasks : task[t].op = "_async_update_data" /\ task[t].pc = "done"
    /\ \E d \in devices_dict_keys(St), i \in DOMAIN Fridge11Preference.sensor :
          /\ Fridge11Preference.sensor[i].key \in DOMAIN dev[d].status
          /\ Commit([St EXCEPT !.entities =
                     <<PanasonicCNSensor_init(
                           St, d, entity(dev[d], "sensor", Fridge11Preference.sensor[i]))>>])

\* the coordinator notifies an entity of the refresh that has just completed
\* without raising
HandleCoordinatorUpdate ==
    /\ \E t \in Tasks : /\ task[t].op = "_async_update_data" /\ task[t].pc = "done"
                         /\ "raised" \notin DOMAIN task[t].ret
    /\ \E i \in DOMAIN entities :
          /\ entities[i].called_at # message_id
          /\ Commit(handle_coordinator_update(St, i))

\* refresh cycles over an enumerated table, with a sensor entity listening
NextEntity ==
    \/ NewSensor
    \/ HandleCoordinatorUpdate
    \/ \E t \in Tasks :
          \/ AsyncUpdateData(t)
          \/ DevListResponse(t)
          \/ CookieResponse(t)
          \/ StatusResponse(t)

SpecEntity == InitCoordinator /\ [][NextEntity]_vars

-----------------------------------------------------------------------------
(* Vocabulary of the properties *)

\* parse(R) as the specification words it: the keys of the table D, each with
\* R's value when R has the key and D's otherwise
Backfilled(D, R) ==
    [k \in DOMAIN D |-> IF k \in DOMAIN R THEN R[k] ELSE D[k]]

\* the fetched status F with, of the updates U, the keys F holds replaced
Overlaid(F, U) ==
    [k \in DOMAIN F |-> IF k \in DOMAIN U THEN U[k] ELSE F[k]]

\* positions of the requests to endpoint ep in the history of task t's call
Requests(t, ep) == {i \in DOMAIN task[t].log : task[t].log[i].ep = ep}

\* the call of task t has returned
Done(t, op) == task[t].op = op /\ task[t].pc = "done"

\* the status a device holds for its readers: _parsed_status once the
\* attribute exists, else the status attribute fetch_device_status returns
StatusHeld(d) ==
    IF dev[d].has_parsed THEN dev[d].parsed_status ELSE dev[d].status

\* the device-cookie request of task t's call failed: an exception, or an
\* answer without a cookie
CookieFetchFailed(t) ==
    \E i \in Requests(t, "index.html") : task[t].log[i].resp \in {"fail", "nocookie"}

-----------------------------------------------------------------------------
(* Properties *)

\* C1: for every raw status R, parse_form returns a map whose keys are exactly
\* the keys of the default-parameter table D, with R's value for the keys R
\* holds and D's value for the others; keys of R outside D do not appear and
\* D itself is left as it was.
C1_ParseBackfillsDefaults ==
    ~parse_out.none =>
        /\ DOMAIN parse_out.val = DOMAIN Fridge11Defaults
        /\ parse_out.val = Backfilled(Fridge11Defaults, parse_in)
        /\ DOMAIN parse_in \ DOMAIN Fridge11Defaults # {}
               => DOMAIN parse_out.val # DOMAIN parse_in
        /\ default_params = Fridge11Defaults

\* C1 witness: parse_form has run on a raw status that holds a key outside
\* the table, overrides a default and lacks another key of the table.
C1_Witness ==
    /\ ~parse_out.none
    /\ "PCTempCur" \in DOMAIN parse_in
    /\ "PCTempSet" \in DOMAIN parse_in
    /\ parse_in["PCTempSet"] # Fridge11Defaults["PCTempSet"]
    /\ "nanoe" \notin DOMAIN parse_in

C6_FailedSubmitKeepsOverlay ==
    \A t \in Tasks :
        (/\ Done(t, "set_device_status")
         /\ \E i \in Requests(t, "FDevSetStatusInfo") :
                task[t].log[i].resp \in {"fail", "error"}) =>
            LET d == task[t].device_id
            IN  /\ task[t].ret = RetBool(FALSE)
                /\ ~task[t].fetched.none =>
                       /\ dev[d].has_status
                       /\ dev[d].status = Overlaid(task[t].fetched.val, task[t].kwargs)
                /\ task[t].fetched.none =>
                       /\ dev[d].has_status = task[t].pre[d].has_status
                       /\ dev[d].status = task[t].pre[d].status

\* C6 witness: a submission has failed after an overlay that changed the
\* fetched status.
C6_Witness ==
    \E t \in Tasks :
        /\ Done(t, "set_device_status")
        /\ \E i \in Requests(t, "FDevSetStatusInfo") : task[t].log[i].resp = "error"
        /\ ~task[t].fetched.none
        /\ dev[task[t].device_id].status # task[t].fetched.val
        /\ task[t].ret = RetBool(FALSE)

\* the cached cookie of the device when task t's call started, and its age
CookieAtStart(t) == task[t].pre[task[t].device_id].cookie
AgeAtStart(t) ==
    task[t].started_at - task[t].pre[task[t].device_id].cookie_create_time

\* the calls that reach get_device_cookie: the method itself, and the two
\* client calls on a device of the table
UsesDeviceCookie(t) ==
    /\ task[t].op \in {"get_device_cookie", "fetch_device_status", "set_device_status"}
    /\ task[t].device_id \in task[t].pre_devices

C8_FailedCookieFetchLeavesCache ==
    \A t \in Tasks :
        CookieFetchFailed(t) =>
            LET d == task[t].device_id
            IN  /\ Cardinality(Requests(t, "index.html")) = 1
                /\ task[t].pc = "done"
                /\ task[t].op = "get_device_cookie" => task[t].ret = [cookie |-> ""]
                /\ dev[d].cookie = task[t].pre[d].cookie
                /\ dev[d].cookie_create_time = task[t].pre[d].cookie_create_time

\* C8 witness: the refetch of an expired cookie has failed and the expired
\* cookie is still cached.
C8_Witness ==
    \E t \in Tasks :
        /\ Done(t, "get_device_cookie")
        /\ CookieFetchFailed(t)
        /\ CookieAtStart(t) # ""
        /\ task[t].ret = [cookie |-> ""]

\* C9: if get_device_cookie yields "", fetch_device_status returns None, sends
\* no FDevGetStatusInfo request and leaves the device's status as it was.
C9_NoCookieNoFetch ==
    \A t \in Tasks :
        (task[t].op = "fetch_device_status" /\ CookieFetchFailed(t)) =>
            LET d == task[t].device_id
            IN  /\ task[t].pc = "done"
                /\ task[t].ret = None
                /\ Requests(t, "FDevGetStatusInfo") = {}
                /\ dev[d].raw_status = task[t].pre[d].raw_status
                /\ dev[d].has_status = task[t].pre[d].has_status
                /\ dev[d].status = task[t].pre[d].status
                /\ dev[d].has_parsed = task[t].pre[d].has_parsed
                /\ dev[d].parsed_status = task[t].pre[d].parsed_status

\* C9 witness: a device with a fetched status whose next fetch got no cookie.
C9_Witness ==
    \E t \in Tasks :
        /\ Done(t, "fetch_device_status")
        /\ CookieFetchFailed(t)
        /\ dev[task[t].device_id].has_status

\* C10: authenticate sends UsrGetToken first; UsrLogin is sent only as the
\* second request, after UsrGetToken was answered without exception or error
\* field, with the cookie of that answer and with
\* pwd = encode_password(username, password, token of that answer); when
\* UsrGetToken fails, UsrLogin is not sent.
C10_LoginFollowsToken ==
    \A t \in Tasks :
        task[t].op = "authenticate" =>
            LET log == task[t].log
            IN  /\ Len(log) >= 1 => log[1].ep = "UsrGetToken"
                /\ Len(log) <= 2
                /\ (Len(log) >= 1 /\ log[1].resp \in {"fail", "error"}) =>
                       /\ Len(log) = 1
                       /\ task[t].ret = RetBool(FALSE)
                /\ \A i \in Requests(t, "UsrLogin") :
                       /\ i = 2
                       /\ log[1].resp = "ok"
                       /\ log[2].id > log[1].id
                       /\ log[2].cookie = log[1].got.val.header
                       /\ ~log[1].got.val.token.none
                       /\ log[2].params.pwd =
                              LET token == log[1].got.val.token.val
                                  inner == hex_upper_md5(task[t].password \o task[t].username)
                              IN  IF token = "" THEN inner
                                  ELSE hex_upper_md5(inner \o token)

\* C10 witness: UsrLogin has been sent with a secret derived from a
\* non-empty token.
C10_Witness ==
    \E t \in Tasks :
        /\ task[t].op = "authenticate"
        /\ Requests(t, "UsrLogin") = {2}
        /\ task[t].log[1].got.val.token = Some("TK2")
        /\ task[t].log[2].cookie = "SSID=t1"

\* authenticate has returned after UsrGetToken and UsrLogin were both answered
\* with a 2xx status and no error field, the login body holding the account
BothAnsweredOk(t) ==
    /\ Done(t, "authenticate")
    /\ Len(task[t].log) = 2
    /\ task[t].log[1].resp = "ok"
    /\ task[t].log[2].resp = "ok"
    /\ ~task[t].log[2].got.val.results.none
    /\ DOMAIN task[t].log[2].got.val.results.val = DOMAIN Account1

\* C11: when UsrGetToken and UsrLogin are both answered successfully,
\* authenticate returns True, the session's account id, familyId,
\* realFamilyId and session id are those of the login results, and the
\* session cookie is the one the login answer issued, or the previous one
\* when it issued none.
C11_LoginPersistsSession ==
    \A t \in Tasks :
        BothAnsweredOk(t) =>
            LET answer == task[t].log[2].got.val
                results == answer.results.val
            IN  /\ task[t].ret = RetBool(TRUE)
                /\ session.user_id = results["usrId"]
                /\ session.family_id = results["familyId"]
                /\ session.real_family_id = results["realFamilyId"]
                /\ session.ssid = results["ssId"]
                /\ session.cookie = IF answer.header \in {NoHeader, ""}
                                        THEN task[t].pre_session.cookie
                                        ELSE answer.header

\* C12: whenever authenticate returns False, the session fields (account id,
\* both family ids, session id, cookie) are what they were before the call.
C12_FailedLoginKeepsSession ==
    \A t \in Tasks :
        (Done(t, "authenticate") /\ task[t].ret = RetBool(FALSE)) =>
            session = task[t].pre_session

\* the records of a devList whose type code is registered, and whether every
\* identifier of the list has a type code at all
Recognized(devList) ==
    {devList[i] : i \in {j \in DOMAIN devList :
                             Len(devList[j]) >= 2 /\ devList[j][2] \in DEVICE_TYPES}}
WellFormed(devList) == \A i \in DOMAIN devList : Len(devList[i]) >= 2

\* get_devices has returned after UsrGetBindDevInfo answered with a 2xx status,
\* no error field and a list of well-formed identifiers
Enumerated(t) ==
    /\ Done(t, "get_devices")
    /\ task[t].log[1].resp = "ok"
    /\ WellFormed(task[t].log[1].got.val.devList)

\* C13: get_devices builds one table entry for every listed record whose type
\* code is registered and skips the others without failing: it returns the
\* table, whose keys are the recognized identifiers (one entry for a list of
\* one recognized and one unrecognized device).
C13_TableHoldsRecognized ==
    \A t \in Tasks :
        Enumerated(t) =>
            LET devList == task[t].log[1].got.val.devList
            IN  /\ task[t].ret.own_table
                /\ task[t].ret.keys = Recognized(devList)
                /\ devices = Recognized(devList)
                /\ devList = <<Aircon1, Fridge1>> => Cardinality(devices) = 1

Cycle(t) == Done(t, "_async_update_data")

\* positions, in the history of task t's call, of the requests made for device d
RequestsFor(t, d) ==
    {i \in DOMAIN task[t].log :
        /\ task[t].log[i].ep \in {"index.html", "FDevGetStatusInfo"}
        /\ task[t].log[i].params.deviceId = d}

\* C15: in a refresh cycle a failed status fetch for one device does not end
\* the cycle: fetch_device_status is called once for every device of the
\* enumerated table, and the cycle returns the table instead of raising.
C15_FailedFetchDoesNotAbort ==
    \A t \in Tasks :
        Cycle(t) =>
            /\ "raised" \notin DOMAIN task[t].ret
            /\ task[t].ret = devices_dict
            /\ Len(task[t].fetch_calls) = Cardinality(devices_dict_keys(St))
            /\ \A d \in devices_dict_keys(St) :
                   \E i \in DOMAIN task[t].fetch_calls : task[t].fetch_calls[i] = d

\* C15 witness: a cycle over two devices has returned the table although
\* the fetch for the first device failed, and the second device was asked
\* afterwards.
C15_Witness ==
    \E t \in Tasks :
        /\ Cycle(t)
        /\ task[t].fetch_calls = <<Fridge1, Fridge2>>
        /\ task[t].ret.keys = {Fridge1, Fridge2}
        /\ \E i \in RequestsFor(t, Fridge1), j \in RequestsFor(t, Fridge2) :
               /\ task[t].log[i].resp \in {"fail", "error", "nocookie"}
               /\ i < j
        /\ ~dev[Fridge1].has_status

\* C16: if the enumeration fails during a refresh (exception or error field
\* at UsrGetBindDevInfo), the cycle raises UpdateFailed instead of returning a
\* table.
C16_FailedEnumerationRaises ==
    \A t \in Tasks :
        (Cycle(t) /\ task[t].log[1].resp \in {"fail", "error"}) =>
            task[t].ret = Raised("UpdateFailed")

\* C17: async_select_option makes exactly one set_device_status call, whose
\* partial update maps every option key of the group to an integer: 1 for the
\* chosen option and 0 for each of the others.
C17_SelectPatchesWholeGroup ==
    \A t \in Tasks :
        (Done(t, "async_select_option") /\ task[t].device_id \in devices_dict_keys(St)) =>
            /\ Len(task[t].patches) = 1
            /\ task[t].patches[1] =
                   [k \in Fridge11Select[task[t].select_key] |->
                       IF k = task[t].option_key THEN 1 ELSE 0]

\* the integer next to v / 10 on the side of zero
TruncatedTowardZero(v) ==
    CHOOSE n \in -10..10 :
        IF v >= 0 THEN n >= 0 /\ 10 * n <= v /\ v < 10 * n + 10
                  ELSE n <= 0 /\ 10 * n >= v /\ v > 10 * n - 10

\* C18: async_set_number_value patches {key: n} with n the value truncated
\* toward zero (3.9 gives 3, -3.9 gives -3, an integral value is unchanged),
\* and that is the value submitted for the key.
C18_NumberTruncatedTowardZero ==
    \A t \in Tasks :
        task[t].op = "async_set_number_value" =>
            LET n == TruncatedTowardZero(task[t].value)
            IN  /\ task[t].patches = <<[k \in {task[t].key} |-> n]>>
                /\ task[t].value = 39 => n = 3
                /\ task[t].value = -39 => n = -3
                /\ task[t].value = 50 => n = 5
                /\ \A i \in Requests(t, "FDevSetStatusInfo") :
                       LET params == task[t].log[i].params.params
                       IN  (~params.none /\ task[t].key \in DOMAIN params.val) =>
                               params.val[task[t].key] = n

\* C18 witness: -3.9 was set and -3 was submitted for the key.
C18_Witness ==
    \E t \in Tasks :
        /\ task[t].op = "async_set_number_value"
        /\ task[t].value = -39
        /\ \E i \in Requests(t, "FDevSetStatusInfo") :
               /\ ~task[t].log[i].params.params.none
               /\ task[t].log[i].params.params.val["PCTempSet"] = -3

\* C19: async_set_switch_state makes exactly one set_device_status call, with
\* the single-key update {key: 1} for on and {key: 0} for off; what is
\* submitted is the fetched status with that key alone replaced.
C19_SwitchPatchesOneKey ==
    \A t \in Tasks :
        task[t].op = "async_set_switch_state" =>
            LET update == [k \in {task[t].key} |-> IF task[t].state THEN 1 ELSE 0]
            IN  /\ task[t].patches = <<update>>
                /\ \A i \in Requests(t, "FDevSetStatusInfo") :
                       ~task[t].fetched.none =>
                           task[t].log[i].params.params
                               = Some(Overlaid(task[t].fetched.val, update))

\* C19 witness: a switch that was off has been turned on and the cloud has
\* taken the patch.
C19_Witness ==
    \E t \in Tasks :
        /\ Done(t, "async_set_switch_state")
        /\ task[t].state
        /\ ~task[t].fetched.none
        /\ task[t].fetched.val["vacation"] = 0
        /\ cloud[task[t].device_id]["vacation"] = 1
        /\ task[t].ret = None

\* C20: each mutation of the coordinator makes exactly one set_device_status
\* call per invocation and raises to its caller exactly when that call
\* returned False.
C20_MutationRaisesIffPatchFails ==
    \A t \in Tasks :
        (/\ task[t].op \in {"async_set_switch_state", "async_set_number_value",
                             "async_select_option"}
         /\ task[t].pc = "done") =>
            /\ Len(task[t].patches) = 1
            /\ Len(task[t].patch_ret) = 1
            /\ ("raised" \in DOMAIN task[t].ret) <=> ~task[t].patch_ret[1]

\* the entries of a list of the manifest whose key the status holds, as
\* descriptors of the given type for device d
Descriptors(d, type, entries, status) ==
    LET kept == SelectSeq(entries, LAMBDA e : e.key \in DOMAIN status)
    IN  [i \in DOMAIN kept |->
            [type |-> type, unique_id |-> Append(d, kept[i].unique_id),
             key |-> kept[i].key]]

C23_TokenInjective ==
    /\ \A d \in devices : dev[d].token = device_token(d)
    /\ \A d1, d2 \in devices :
           (d1 # d2 /\ d1[2] = d2[2]) => dev[d1].token # dev[d2].token

LastRequestFailed(t) ==
    /\ task[t].log # <<>>
    /\ task[t].log[Len(task[t].log)].resp \notin {"ok", "pending"}

\* C29: a call of get_devices, fetch_device_status or set_device_status (or
\* of get_device_cookie) sends neither UsrGetToken nor UsrLogin and leaves
\* the session fields as it found them; when its last request fails, the
\* call returns its failure value ({} / None / False) to the caller.
C29_NoReauthentication ==
    \A t \in Tasks :
        task[t].op \in {"get_devices", "fetch_device_status",
                        "set_device_status", "get_device_cookie"} =>
            /\ Requests(t, "UsrGetToken") = {}
            /\ Requests(t, "UsrLogin") = {}
            /\ session = task[t].pre_session
            /\ (task[t].pc = "done" /\ LastRequestFailed(t)) =>
                   CASE task[t].op = "get_devices"         -> task[t].ret = NewEmptyDict
                     [] task[t].op = "fetch_device_status" -> task[t].ret = None
                     [] task[t].op = "set_device_status"   -> task[t].ret = RetBool(FALSE)
                     [] OTHER -> task[t].ret = [cookie |-> ""]

\* C29 witness: an enumeration made with a session in place was answered
\* with an error field and has returned; the session is still in place.
C29_Witness ==
    \E t \in Tasks :
        /\ Done(t, "get_devices")
        /\ task[t].pre_session # NoSession
        /\ \E i \in Requests(t, "UsrGetBindDevInfo") : task[t].log[i].resp = "error"
        /\ task[t].ret = NewEmptyDict
        /\ session = task[t].pre_session

\* C30: when FDevGetStatusInfo is answered with a failure (an exception of
\* the transport or of the HTTP status, or an error field), fetch_device_status
\* returns None and the device's raw status, status attribute and parsed
\* status are what they were before the call.
C30_FailedFetchLeavesStatus ==
    \A t \in Tasks :
        (/\ task[t].op = "fetch_device_status"
         /\ \E i \in Requests(t, "FDevGetStatusInfo") :
                task[t].log[i].resp \in {"fail", "error"}) =>
            LET d == task[t].device_id
            IN  /\ task[t].pc = "done"
                /\ task[t].ret = None
                /\ dev[d].raw_status = task[t].pre[d].raw_status
                /\ dev[d].has_status = task[t].pre[d].has_status
                /\ dev[d].status = task[t].pre[d].status
                /\ dev[d].has_parsed = task[t].pre[d].has_parsed
                /\ dev[d].parsed_status = task[t].pre[d].parsed_status

\* C30 witness: a device that holds a fetched status was fetched again, the
\* answer carried an error field, and the call has returned.
C30_Witness ==
    \E t \in Tasks :
        /\ Done(t, "fetch_device_status")
        /\ \E i \in Requests(t, "FDevGetStatusInfo") : task[t].log[i].resp = "error"
        /\ task[t].pre[task[t].device_id].has_status
        /\ task[t].pre[task[t].device_id].status # EmptyDict
        /\ dev[task[t].device_id].status = task[t].pre[task[t].device_id].status

C27_SetterIsAtomic ==
    /\ \A d \in devices :
           IF dev[d].has_parsed
               THEN dev[d].parsed_status = Backfilled(Fridge11Defaults, dev[d].raw_status)
               ELSE dev[d].raw_status = EmptyDict /\ dev[d].parsed_status = EmptyDict
    /\ \A t \in Tasks :
           Done(t, "raw_status") =>
               LET d == task[t].device_id
                   value == task[t].new_status.val
               IN  IF "raised" \in DOMAIN task[t].ret
                       THEN /\ dev[d].raw_status = task[t].pre[d].raw_status
                            /\ dev[d].has_parsed = task[t].pre[d].has_parsed
                            /\ dev[d].parsed_status = task[t].pre[d].parsed_status
                       ELSE /\ dev[d].raw_status = value
                            /\ dev[d].has_parsed
                            /\ dev[d].parsed_status = Backfilled(Fridge11Defaults, value)

\* C27 witness: the setter has replaced one raw status by another on one
\* device, and has raised on the other device, whose sub-type has no manifest.
C27_Witness ==
    /\ dev[Fridge1].has_parsed
    /\ dev[Fridge1].raw_status \in CloudStatuses
    /\ \E t \in Tasks :
           /\ Done(t, "raw_status")
           /\ task[t].device_id = Fridge2
           /\ task[t].ret = Raised("KeyError")
           /\ task[t].new_status.val # EmptyDict
           /\ dev[Fridge2].raw_status = EmptyDict

Numbered(t) == {i \in DOMAIN task[t].log : task[t].log[i].ep # "index.html"}

UNINITIALIZED(device) ==
    device.raw_status = EmptyDict /\ ~device.has_parsed
READY(device) ==
    /\ device.raw_status # EmptyDict
    /\ device.has_parsed /\ device.parsed_status # EmptyDict

C32_LoginSecret ==
    \A t \in Tasks :
        Done(t, "_encode_password") =>
            LET inner == "MD5(" \o task[t].password \o task[t].username \o ")"
            IN  task[t].ret =
                    [value |-> IF task[t].token = "" THEN inner
                               ELSE "MD5(" \o inner \o task[t].token \o ")"]

\* C32 witness: the secret was derived with a token, from a password hash and
\* a username whose concatenation reads differently in the other order.
C32_Witness ==
    \E t \in Tasks :
        /\ Done(t, "_encode_password")
        /\ task[t].token = "TK1"
        /\ task[t].password = "5F4DCC3B" /\ task[t].username = "alice"
        /\ task[t].ret = [value |-> "MD5(MD5(5F4DCC3Balice)TK1)"]
        /\ session = Session1

====
